---- MODULE Spec2Model ----
(***************************************************************************)
(* Model of the mDNS query client of src/client.go: one call of Query,    *)
(* the client (Transport) it creates, the two recv goroutines, the        *)
(* network that delivers datagrams, and the caller that owns the Entries  *)
(* channel.  Strings are sequences of one-character strings.              *)
(***************************************************************************)
EXTENDS Integers, Sequences, FiniteSets, TLC

\* ---------------------------------------------------------------- bounds
\* number of datagrams the network delivers while records are being logged
MaxPackets == 2
\* capacity of msgCh; the source uses 32 (client.go:167), scaled down
MsgChCap == 1
\* number of Close calls each further caller makes
MaxCloseCalls == 2
\* number of operations made on one registry
MaxOps == 3

\* time.Second, the default timeout, in timer ticks of one second
DefaultTimeout == 1

Stacks == {4, 6}

\* further goroutines that call client.Close on the same client
Closers == {"c1", "c2"}

VARIABLES
    params,       \* *QueryParam: Service, Domain, Timeout, Interface, QueryType, EntriesCap
    entries,      \* buffer of the channel params.Entries
    qpc,          \* position of the goroutine running Query
    ret,          \* value of Query's return statement ("none" until one ran)
    list,         \* list[4] = c.ipv4List, list[6] = c.ipv6List
    closed,       \* c.closed
    closedCh,     \* c.closedCh: "open" or "closed"
    closeLock,    \* c.closeLock: "free" or the holder
    ifaceSet,     \* per stack, the outcome of SetMulticastInterface
    serviceAddr,  \* local of client.query
    msgCh,        \* local of client.query, shared with the recv goroutines
    finish,       \* the timer of time.After: ticks left, -1 while not created
    resp,         \* message the loop of client.query is ranging over
    idx,          \* index of the range loop in resp.Answer
    rpc,          \* position of each recv goroutine
    rmsg,         \* message each recv goroutine is about to push
    wrote,        \* per stack, number of WriteTo calls made by sendQuery
    packErr,      \* TRUE once q.Pack() has returned an error in sendQuery
    logWrites,    \* TRUE: the outcome of the WriteTo calls is logged in wfail
    wfail,        \* history: the stacks whose WriteTo returned an error
    logGarbage,   \* TRUE: the datagrams msg.Unpack refused are logged in garbled
    garbled,      \* history: arrival positions of the datagrams Unpack refused
    inprogress,   \* map[string]*ServiceEntry: name -> index of the entry in heap
    heap,         \* the ServiceEntry objects allocated so far
    rop,          \* the last operation made on the registry and its result
    nops,         \* number of operations made on the registry
    aliasedEver,  \* history: the <<src, dst>> of every alias call made
    chCloses,     \* number of close(c.closedCh) executed
    sockCloses,   \* per stack, number of Close calls made on the socket
    cpc,          \* position of each further caller of client.Close
    ccalls,       \* per further caller, the Close calls that have returned
    observe,      \* TRUE: the network is bounded by budget and history is logged
    budget,       \* datagrams the network may still deliver
    taken,        \* history: messages taken from msgCh, in order
    forwarded     \* history: records sent on params.Entries, in order

vars == <<params, entries, qpc, ret, list, closed, closedCh, closeLock,
          ifaceSet, serviceAddr, msgCh, finish, resp, idx, rpc, rmsg,
          wrote, packErr, observe, budget, taken, forwarded,
          logWrites, wfail, garbled, chCloses, sockCloses, cpc, ccalls,
          logGarbage, garbled, inprogress, heap, rop, nops, aliasedEver>>

clientVars == <<list, closed, closedCh, closeLock, ifaceSet>>
loopVars == <<serviceAddr, msgCh, finish, resp, idx>>
recvVars == <<rpc, rmsg>>
histVars == <<observe, budget, taken, forwarded>>
auxVars == <<wfail, garbled, chCloses, sockCloses>>
flagVars == <<logWrites, logGarbage>>
regVars == <<inprogress, heap, rop, nops, aliasedEver>>
extVars == <<flagVars, regVars, cpc, ccalls>>

\* ------------------------------------------------------------- strings
Local == <<"l", "o", "c", "a", "l">>

RECURSIVE trimDot(_)
trimDot(s) ==
    IF s # <<>> /\ s[Len(s)] = "."
    THEN trimDot(SubSeq(s, 1, Len(s) - 1))
    ELSE s

\* strings.Replace(s, " ", "\\ ", -1)
RECURSIVE EscapeSpaces(_)
EscapeSpaces(s) ==
    IF s = <<>> THEN <<>>
    ELSE (IF Head(s) = " " THEN <<"\\", " ">> ELSE <<Head(s)>>)
         \o EscapeSpaces(Tail(s))

\* fmt.Sprintf("%s.%s.", trimDot(service), trimDot(domain)), then escaped
ServiceAddrOf(service, domain) ==
    EscapeSpaces(trimDot(service) \o <<".">> \o trimDot(domain) \o <<".">>)

\* ---------------------------------------------------------- parameters
Services == { <<"s">>, <<"s", " ", ".">> }
Domains == { <<>>, <<"d">> }
QueryTypes == {"ANY", "A"}
\* the timeouts a caller passes: unset, or one second
Timeouts == {0, DefaultTimeout}
\* the caller's Entries channel: unbuffered, or with room for one record
EntriesCaps == {0, 1}
Interfaces == {"nil", "eth0"}

ParamSet ==
    [Service : Services, Domain : Domains, Timeout : Timeouts,
     Interface : Interfaces, QueryType : QueryTypes,
     EntriesCap : EntriesCaps]

\* --------------------------------------------------------- the network
\* The name responders answer for: the name of the question on the wire.
QuestionName ==
    ServiceAddrOf(params.Service,
                  IF params.Domain = <<>> THEN Local ELSE params.Domain)
OtherName == <<"_", "s", "s", "h", ".">>

RR(name, rrtype) == [Name |-> name, Rrtype |-> rrtype]

\* Decoded messages (their Answer sections) that may arrive on a socket.
Messages ==
    { << RR(QuestionName, "TXT"), RR(QuestionName, "A") >>,
      << RR(OtherName, "A"), RR(QuestionName, "A") >>,
      << >> }
NoMsg == << >>

\* ---------------------------------------------------------- registry
Names == {"a", "b", "c"}

\* the fields a caller sets on an entry, with the value it sets
Mutations == {<<"Addr", "ip">>, <<"Port", 1>>, <<"hasTXT", TRUE>>}

\* lines 239-241: &ServiceEntry{Name: name}, every other field zero
NewEntry(name) ==
    [Name |-> name, Addr |-> "nil", Port |-> 0, Info |-> "",
     hasTXT |-> FALSE, sent |-> FALSE]

\* m[name] = p on a Go map
MapSet(m, name, p) ==
    [n \in (DOMAIN m) \cup {name} |-> IF n = name THEN p ELSE m[n]]

\* an ensureName without the lookup of line 236
ensureNameFresh(m, h, name) ==
    [inprogress |-> MapSet(m, name, Len(h) + 1),
     heap |-> Append(h, NewEntry(name)),
     ret |-> Len(h) + 1]

\* lines 235-244
ensureName(m, h, name) ==
    IF name \in DOMAIN m
    THEN [inprogress |-> m, heap |-> h, ret |-> m[name]]
    ELSE [inprogress |-> MapSet(m, name, Len(h) + 1),
          heap |-> Append(h, NewEntry(name)),
          ret |-> Len(h) + 1]

\* an alias that binds dst only when src is already in the map
aliasNoCreate(m, h, src, dst) ==
    IF src \in DOMAIN m
    THEN [inprogress |-> MapSet(m, dst, m[src]), heap |-> h]
    ELSE [inprogress |-> m, heap |-> h]

\* lines 247-250
alias(m, h, src, dst) ==
    LET srcEntry == ensureName(m, h, src)
    IN  [inprogress |-> MapSet(srcEntry.inprogress, dst, srcEntry.ret),
         heap |-> srcEntry.heap]

\* e.<field> = value, through the pointer p
SetField(h, p, mu) ==
    [h EXCEPT ![p] = [f \in DOMAIN h[p] |-> IF f = mu[1] THEN mu[2] ELSE h[p][f]]]

NoOp == [op |-> "none", src |-> "", dst |-> "", ret |-> 0]

RegistryInit ==
    /\ inprogress = [n \in {} |-> 0]
    /\ heap = <<>>
    /\ rop = NoOp
    /\ nops = 0
    /\ aliasedEver = {}

\* ------------------------------------------------------------- Init
InitCommon ==
    /\ params \in ParamSet
    /\ entries = <<>>
    /\ qpc = "newClient"
    /\ ret = "none"
    /\ list = [s \in Stacks |-> "unset"]
    /\ closed = FALSE
    /\ closedCh = "unset"
    /\ closeLock = "free"
    /\ ifaceSet = [s \in Stacks |-> "untouched"]
    /\ serviceAddr = <<>>
    /\ msgCh = <<>>
    /\ finish = -1
    /\ resp = NoMsg
    /\ idx = 0
    /\ rpc = [s \in Stacks |-> "idle"]
    /\ rmsg = [s \in Stacks |-> NoMsg]
    /\ wrote = [s \in Stacks |-> 0]
    /\ packErr = FALSE
    /\ wfail = {}
    /\ garbled = {}
    /\ chCloses = 0
    /\ sockCloses = [s \in Stacks |-> 0]
    /\ RegistryInit
    /\ cpc = [c \in Closers |-> "idle"]
    /\ ccalls = [c \in Closers |-> 0]
    /\ taken = <<>>
    /\ forwarded = <<>>

Init ==
    /\ InitCommon
    /\ observe = TRUE
    /\ budget = MaxPackets
    /\ logWrites = FALSE
    /\ logGarbage = FALSE

\* history is kept only while the network is bounded
Log(h, x) == IF observe THEN Append(h, x) ELSE h

\* ------------------------------------------------------------- Query
\* newClient without the check of line 114
NewClientNoCheck ==
    /\ qpc = "newClient"
    /\ \E ok4, ok6 \in BOOLEAN :
        /\ list' = [s \in Stacks |->
                      IF (s = 4 /\ ok4) \/ (s = 6 /\ ok6) THEN "open" ELSE "nil"]
        /\ closedCh' = "open"
        /\ qpc' = "setInterface"
        /\ UNCHANGED ret
    /\ UNCHANGED <<params, entries, closed, closeLock, ifaceSet, wrote, packErr>>
    /\ UNCHANGED <<loopVars, recvVars, histVars>>
    /\ UNCHANGED <<auxVars, extVars>>

\* newClient (103-124), called at Query line 58
NewClient ==
    /\ qpc = "newClient"
    /\ \E ok4, ok6 \in BOOLEAN :
        IF ~ok4 /\ ~ok6
        THEN /\ list' = [s \in Stacks |-> "nil"]
             /\ ret' = "ErrBind"
             /\ qpc' = "done"
             /\ UNCHANGED closedCh
        ELSE /\ list' = [s \in Stacks |->
                           IF (s = 4 /\ ok4) \/ (s = 6 /\ ok6)
                           THEN "open" ELSE "nil"]
             /\ closedCh' = "open"
             /\ qpc' = "setInterface"
             /\ UNCHANGED ret
    /\ UNCHANGED <<params, entries, closed, closeLock, ifaceSet, wrote, packErr>>
    /\ UNCHANGED <<loopVars, recvVars, histVars>>
    /\ UNCHANGED <<auxVars, extVars>>

\* The value SetMulticastInterface returns for stack s: a nil connection is
\* always refused by the packet-conn wrapper, a live one may accept or reject.
IfaceOutcomes(s) ==
    IF list[s] = "nil" THEN {"rejected"} ELSE {"set", "rejected"}

\* setInterface dropping the error of the IPv6 stack (154-156)
SetInterfaceSkip6 ==
    /\ qpc = "setInterface"
    /\ IF params.Interface = "nil"
       THEN /\ qpc' = "defaults"
            /\ UNCHANGED <<ifaceSet, ret>>
       ELSE \E r4 \in IfaceOutcomes(4), r6 \in IfaceOutcomes(6) :
              IF r4 = "rejected"
              THEN /\ ifaceSet' = [ifaceSet EXCEPT ![4] = r4]
                   /\ ret' = "ErrIface"
                   /\ qpc' = "Close"
              ELSE /\ ifaceSet' = [ifaceSet EXCEPT ![4] = r4, ![6] = r6]
                   /\ qpc' = "defaults"
                   /\ UNCHANGED ret
    /\ UNCHANGED <<params, entries, list, closed, closedCh, closeLock, wrote, packErr>>
    /\ UNCHANGED <<loopVars, recvVars, histVars>>
    /\ UNCHANGED <<auxVars, extVars>>

\* Query lines 64-69 with client.setInterface (148-158)
SetInterface ==
    /\ qpc = "setInterface"
    /\ IF params.Interface = "nil"
       THEN /\ qpc' = "defaults"
            /\ UNCHANGED <<ifaceSet, ret>>
       ELSE \E r4 \in IfaceOutcomes(4), r6 \in IfaceOutcomes(6) :
              IF r4 = "rejected"
              THEN /\ ifaceSet' = [ifaceSet EXCEPT ![4] = r4]
                   /\ ret' = "ErrIface"
                   /\ qpc' = "Close"
              ELSE /\ ifaceSet' = [ifaceSet EXCEPT ![4] = r4, ![6] = r6]
                   /\ IF r6 = "rejected"
                      THEN ret' = "ErrIface" /\ qpc' = "Close"
                      ELSE qpc' = "defaults" /\ UNCHANGED ret
    /\ UNCHANGED <<params, entries, list, closed, closedCh, closeLock, wrote, packErr>>
    /\ UNCHANGED <<loopVars, recvVars, histVars>>
    /\ UNCHANGED <<auxVars, extVars>>

\* Query lines 71-77
Defaults ==
    /\ qpc = "defaults"
    /\ params' = [params EXCEPT
                    !.Domain = IF @ = <<>> THEN Local ELSE @,
                    !.Timeout = IF @ = 0 THEN DefaultTimeout ELSE @]
    /\ qpc' = "query"
    /\ UNCHANGED <<entries, ret, wrote, packErr>>
    /\ UNCHANGED <<clientVars, loopVars, recvVars, histVars>>
    /\ UNCHANGED <<auxVars, extVars>>

\* client.query lines 162-169: the name, the channel, the two goroutines
QueryStart ==
    /\ qpc = "query"
    /\ serviceAddr' = ServiceAddrOf(params.Service, params.Domain)
    /\ msgCh' = <<>>
    /\ rpc' = [s \in Stacks |-> "entry"]
    /\ qpc' = "sendQuery"
    /\ UNCHANGED <<params, entries, ret, wrote, packErr, finish, resp, idx, rmsg>>
    /\ UNCHANGED <<clientVars, histVars>>
    /\ UNCHANGED <<auxVars, extVars>>

\* sendQuery giving up at the first WriteTo that fails
sendQueryAbort(packOk, failing) ==
    IF packOk
    THEN [s \in Stacks |->
            IF list[s] # "nil" /\ ~(s = 6 /\ list[4] # "nil" /\ 4 \in failing)
            THEN wrote[s] + 1 ELSE wrote[s]]
    ELSE wrote

\* client.sendQuery (196-208): one WriteTo per live socket, whatever the
\* writes on the stacks in failing return (their results are dropped)
sendQuery(packOk, failing) ==
    IF packOk
    THEN [s \in Stacks |-> IF list[s] # "nil" THEN wrote[s] + 1 ELSE wrote[s]]
    ELSE wrote

\* The WriteTo calls of lines 202 and 205 that return an error, when the
\* network makes the writes on the stacks in failing fail.
WriteFailures(packOk, failing) ==
    IF packOk /\ logWrites THEN {s \in failing : list[s] # "nil"} ELSE {}

\* client.query lines 171-179.  Pack is the external codec: it may refuse the
\* name (a label longer than 63 bytes, an empty label).
SendQuery ==
    /\ qpc = "sendQuery"
    /\ \E packOk \in BOOLEAN, failing \in SUBSET Stacks :
        /\ wrote' = sendQuery(packOk, failing)
        /\ wfail' = WriteFailures(packOk, failing)
        /\ packErr' = ~packOk
        /\ IF packOk
           THEN /\ finish' = params.Timeout
                /\ qpc' = "select"
                /\ UNCHANGED ret
           ELSE /\ ret' = "nil"
                /\ qpc' = "Close"
                /\ UNCHANGED finish
    /\ UNCHANGED <<params, entries, serviceAddr, msgCh, resp, idx>>
    /\ UNCHANGED <<clientVars, recvVars, histVars>>
    /\ UNCHANGED <<garbled, chCloses, sockCloses, extVars>>

\* the runtime timer behind time.After(params.Timeout)
Tick ==
    /\ finish > 0
    /\ finish' = finish - 1
    /\ UNCHANGED <<params, entries, qpc, ret, wrote, packErr, serviceAddr, msgCh, resp, idx>>
    /\ UNCHANGED <<clientVars, recvVars, histVars>>
    /\ UNCHANGED <<auxVars, extVars>>

\* select, case resp := <-msgCh (182)
SelectMsg ==
    /\ qpc = "select"
    /\ msgCh # <<>>
    /\ resp' = Head(msgCh)
    /\ msgCh' = Tail(msgCh)
    /\ idx' = 1
    /\ taken' = Log(taken, Head(msgCh))
    /\ qpc' = "range"
    /\ UNCHANGED <<params, entries, ret, wrote, packErr, serviceAddr, finish>>
    /\ UNCHANGED <<clientVars, recvVars, observe, budget, forwarded>>
    /\ UNCHANGED <<auxVars, extVars>>

\* a select that looks at the timer only when no message is waiting
SelectFinishIdle ==
    /\ qpc = "select"
    /\ finish = 0
    /\ msgCh = <<>>
    /\ ret' = "nil"
    /\ qpc' = "Close"
    /\ UNCHANGED <<params, entries, wrote, packErr>>
    /\ UNCHANGED <<clientVars, loopVars, recvVars, histVars>>
    /\ UNCHANGED <<auxVars, extVars>>

\* select, case <-finish (188-189)
SelectFinish ==
    /\ qpc = "select"
    /\ finish = 0
    /\ ret' = "nil"
    /\ qpc' = "Close"
    /\ UNCHANGED <<params, entries, wrote, packErr>>
    /\ UNCHANGED <<clientVars, loopVars, recvVars, histVars>>
    /\ UNCHANGED <<auxVars, extVars>>

\* line 184 without the comparison of the name
MatchesTypeOnly(answer) ==
    params.QueryType = "ANY" \/ answer.Rrtype = params.QueryType

\* line 184 with a record forwarded only the first time it is seen
MatchesOnce(answer) ==
    /\ answer.Name = serviceAddr
    /\ (params.QueryType = "ANY" \/ answer.Rrtype = params.QueryType)
    /\ \A i \in 1..Len(forwarded) : forwarded[i] # answer

\* the condition of line 184
Matches(answer) ==
    /\ answer.Name = serviceAddr
    /\ (params.QueryType = "ANY" \/ answer.Rrtype = params.QueryType)

\* the range loop is over: back to the select
RangeEnd ==
    /\ qpc = "range"
    /\ idx > Len(resp)
    /\ qpc' = "select"
    /\ UNCHANGED <<params, entries, ret, wrote, packErr, serviceAddr, msgCh, finish, resp, idx>>
    /\ UNCHANGED <<clientVars, recvVars, histVars>>
    /\ UNCHANGED <<auxVars, extVars>>

\* an answer that does not match is dropped (184)
RangeSkip ==
    /\ qpc = "range"
    /\ idx <= Len(resp)
    /\ ~Matches(resp[idx])
    /\ idx' = idx + 1
    /\ UNCHANGED <<params, entries, qpc, ret, wrote, packErr, serviceAddr, msgCh, finish, resp>>
    /\ UNCHANGED <<clientVars, recvVars, histVars>>
    /\ UNCHANGED <<auxVars, extVars>>

\* params.Entries <- answer (185) into a free slot of a buffered channel
RangeSendBuffered ==
    /\ qpc = "range"
    /\ idx <= Len(resp)
    /\ Matches(resp[idx])
    /\ Len(entries) < params.EntriesCap
    /\ entries' = Append(entries, resp[idx])
    /\ forwarded' = Log(forwarded, resp[idx])
    /\ idx' = idx + 1
    /\ UNCHANGED <<params, qpc, ret, wrote, packErr, serviceAddr, msgCh, finish, resp>>
    /\ UNCHANGED <<clientVars, recvVars, observe, budget, taken>>
    /\ UNCHANGED <<auxVars, extVars>>

\* params.Entries <- answer (185) handed to the caller blocked in a receive
RangeSendDirect ==
    /\ qpc = "range"
    /\ idx <= Len(resp)
    /\ Matches(resp[idx])
    /\ entries = <<>>
    /\ forwarded' = Log(forwarded, resp[idx])
    /\ idx' = idx + 1
    /\ UNCHANGED <<params, entries, qpc, ret, wrote, packErr, serviceAddr, msgCh, finish, resp>>
    /\ UNCHANGED <<clientVars, recvVars, observe, budget, taken>>
    /\ UNCHANGED <<auxVars, extVars>>

\* the caller takes a buffered record from its Entries channel
CallerRecv ==
    /\ entries # <<>>
    /\ entries' = Tail(entries)
    /\ UNCHANGED <<params, qpc, ret, wrote, packErr>>
    /\ UNCHANGED <<clientVars, loopVars, recvVars, histVars>>
    /\ UNCHANGED <<auxVars, extVars>>

\* ------------------------------------------------------------- Close
\* client.Close (127-144), deferred at Query line 62: closeLock.Lock()
CloseLock ==
    /\ qpc = "Close"
    /\ closeLock = "free"
    /\ closeLock' = "Query"
    /\ qpc' = "Close_flag"
    /\ UNCHANGED <<params, entries, ret, wrote, packErr, list, closed, closedCh, ifaceSet>>
    /\ UNCHANGED <<loopVars, recvVars, histVars>>
    /\ UNCHANGED <<auxVars, extVars>>

\* Close without the test of line 131
AlreadyClosedUnchecked == FALSE

\* line 131: if c.closed
AlreadyClosed == closed

\* lines 131-134: the early return when closed, else c.closed = true
CloseFlag ==
    /\ qpc = "Close_flag"
    /\ IF AlreadyClosed
       THEN qpc' = "Close_unlock" /\ UNCHANGED closed
       ELSE qpc' = "Close_ch" /\ closed' = TRUE
    /\ UNCHANGED <<params, entries, ret, wrote, packErr, list, closedCh, closeLock, ifaceSet>>
    /\ UNCHANGED <<loopVars, recvVars, histVars>>
    /\ UNCHANGED <<auxVars, extVars>>

\* line 135: close(c.closedCh)
CloseCh ==
    /\ qpc = "Close_ch"
    /\ closedCh' = "closed"
    /\ qpc' = "Close_socks"
    /\ UNCHANGED <<params, entries, ret, wrote, packErr, list, closed, closeLock, ifaceSet>>
    /\ UNCHANGED <<loopVars, recvVars, histVars>>
    /\ chCloses' = chCloses + 1
    /\ UNCHANGED <<wfail, garbled, sockCloses, extVars>>

\* Close without lines 140-142
CloseSocketsV4Only ==
    [s \in Stacks |-> IF s = 4 /\ list[s] # "nil" THEN "closed" ELSE list[s]]

\* lines 137-142: each socket that is not nil is closed
CloseSockets ==
    [s \in Stacks |-> IF list[s] # "nil" THEN "closed" ELSE list[s]]

\* the Close calls lines 137-142 make on the sockets
SocketCloses ==
    [s \in Stacks |-> IF list[s] # "nil" THEN sockCloses[s] + 1 ELSE sockCloses[s]]

CloseSocks ==
    /\ qpc = "Close_socks"
    /\ list' = CloseSockets
    /\ qpc' = "Close_unlock"
    /\ UNCHANGED <<params, entries, ret, wrote, packErr, closed, closedCh, closeLock, ifaceSet>>
    /\ UNCHANGED <<loopVars, recvVars, histVars>>
    /\ sockCloses' = SocketCloses
    /\ UNCHANGED <<wfail, garbled, chCloses, extVars>>

\* the deferred Unlock, then Query returns ret to its caller
CloseUnlock ==
    /\ qpc = "Close_unlock"
    /\ closeLock' = "free"
    /\ qpc' = "done"
    /\ UNCHANGED <<params, entries, ret, wrote, packErr, list, closed, closedCh, ifaceSet>>
    /\ UNCHANGED <<loopVars, recvVars, histVars>>
    /\ UNCHANGED <<auxVars, extVars>>

\* client.Close (127-144) called by a further goroutine c
CallCloseLock(c) ==
    /\ cpc[c] = "idle"
    /\ ccalls[c] < MaxCloseCalls
    /\ closedCh # "unset"
    /\ closeLock = "free"
    /\ closeLock' = c
    /\ cpc' = [cpc EXCEPT ![c] = "Close_flag"]
    /\ UNCHANGED <<params, entries, qpc, ret, wrote, packErr, list, closed, closedCh, ifaceSet>>
    /\ UNCHANGED <<loopVars, recvVars, histVars, auxVars, flagVars, regVars, ccalls>>

CallCloseFlag(c) ==
    /\ cpc[c] = "Close_flag"
    /\ IF AlreadyClosed
       THEN cpc' = [cpc EXCEPT ![c] = "Close_unlock"] /\ UNCHANGED closed
       ELSE cpc' = [cpc EXCEPT ![c] = "Close_ch"] /\ closed' = TRUE
    /\ UNCHANGED <<params, entries, qpc, ret, wrote, packErr, list, closedCh, closeLock, ifaceSet>>
    /\ UNCHANGED <<loopVars, recvVars, histVars, auxVars, flagVars, regVars, ccalls>>

CallCloseCh(c) ==
    /\ cpc[c] = "Close_ch"
    /\ closedCh' = "closed"
    /\ chCloses' = chCloses + 1
    /\ cpc' = [cpc EXCEPT ![c] = "Close_socks"]
    /\ UNCHANGED <<params, entries, qpc, ret, wrote, packErr, list, closed, closeLock, ifaceSet>>
    /\ UNCHANGED <<loopVars, recvVars, histVars, wfail, garbled, sockCloses, flagVars, regVars, ccalls>>

CallCloseSocks(c) ==
    /\ cpc[c] = "Close_socks"
    /\ list' = CloseSockets
    /\ sockCloses' = SocketCloses
    /\ cpc' = [cpc EXCEPT ![c] = "Close_unlock"]
    /\ UNCHANGED <<params, entries, qpc, ret, wrote, packErr, closed, closedCh, closeLock, ifaceSet>>
    /\ UNCHANGED <<loopVars, recvVars, histVars, wfail, garbled, chCloses, flagVars, regVars, ccalls>>

CallCloseUnlock(c) ==
    /\ cpc[c] = "Close_unlock"
    /\ closeLock' = "free"
    /\ cpc' = [cpc EXCEPT ![c] = "idle"]
    /\ ccalls' = [ccalls EXCEPT ![c] = @ + 1]
    /\ UNCHANGED <<params, entries, qpc, ret, wrote, packErr, list, closed, closedCh, ifaceSet>>
    /\ UNCHANGED <<loopVars, recvVars, histVars, auxVars, flagVars, regVars>>

CallClose(c) ==
    \/ CallCloseLock(c)
    \/ CallCloseFlag(c)
    \/ CallCloseCh(c)
    \/ CallCloseSocks(c)
    \/ CallCloseUnlock(c)

\* ------------------------------------------------- registry, its owner
\* everything but the registry
queryVars == <<params, entries, qpc, ret, wrote, packErr, clientVars, loopVars,
               recvVars, histVars, auxVars, flagVars, cpc, ccalls>>

\* e := ensureName(inprogress, name)
EnsureNameCall(name) ==
    /\ nops < MaxOps
    /\ LET r == ensureName(inprogress, heap, name)
       IN  /\ inprogress' = r.inprogress
           /\ heap' = r.heap
           /\ rop' = [op |-> "ensureName", src |-> name, dst |-> "", ret |-> r.ret]
    /\ nops' = nops + 1
    /\ UNCHANGED <<aliasedEver, queryVars>>

\* alias(inprogress, src, dst)
AliasCall(src, dst) ==
    /\ nops < MaxOps
    /\ LET r == alias(inprogress, heap, src, dst)
       IN  /\ inprogress' = r.inprogress
           /\ heap' = r.heap
    /\ rop' = [op |-> "alias", src |-> src, dst |-> dst, ret |-> 0]
    /\ aliasedEver' = aliasedEver \cup {<<src, dst>>}
    /\ nops' = nops + 1
    /\ UNCHANGED queryVars

\* e := ensureName(inprogress, name); e.<field> = value
MutateCall(name, mu) ==
    /\ nops < MaxOps
    /\ LET r == ensureName(inprogress, heap, name)
       IN  /\ inprogress' = r.inprogress
           /\ heap' = SetField(r.heap, r.ret, mu)
           /\ rop' = [op |-> "mutate", src |-> name, dst |-> "", ret |-> r.ret]
    /\ nops' = nops + 1
    /\ UNCHANGED <<aliasedEver, queryVars>>

\* -------------------------------------------------------------- recv
\* line 212: a goroutine started on a nil socket returns at once
RecvEntry(s) ==
    /\ rpc[s] = "entry"
    /\ rpc' = [rpc EXCEPT ![s] = IF list[s] = "nil" THEN "done" ELSE "check"]
    /\ UNCHANGED <<params, entries, qpc, ret, wrote, packErr, rmsg>>
    /\ UNCHANGED <<clientVars, loopVars, histVars>>
    /\ UNCHANGED <<auxVars, extVars>>

\* What the read of c.closed at line 216 may observe.  It is made without
\* closeLock, so once Close has written the flag the read races with that
\* write and may still observe the old value.
ClosedSeen == IF closed THEN {TRUE, FALSE} ELSE {FALSE}

\* line 216: for !c.closed
RecvCheck(s) ==
    /\ rpc[s] = "check"
    /\ \E seen \in ClosedSeen :
         rpc' = [rpc EXCEPT ![s] = IF seen THEN "done" ELSE "read"]
    /\ UNCHANGED <<params, entries, qpc, ret, wrote, packErr, rmsg>>
    /\ UNCHANGED <<clientVars, loopVars, histVars>>
    /\ UNCHANGED <<auxVars, extVars>>

\* line 217-220: l.Read fails (the socket was closed, or a transient error)
RecvReadErr(s) ==
    /\ rpc[s] = "read"
    /\ list[s] \in {"open", "closed"}
    /\ rpc' = [rpc EXCEPT ![s] = "check"]
    /\ UNCHANGED <<params, entries, qpc, ret, wrote, packErr, rmsg>>
    /\ UNCHANGED <<clientVars, loopVars, histVars>>
    /\ UNCHANGED <<auxVars, extVars>>

\* the network still has a datagram to deliver
CanDeliver == ~observe \/ budget > 0
Delivered == IF observe THEN budget - 1 ELSE budget

\* the place in the order of arrival of the datagram being read
Arrival == MaxPackets - budget + 1
Garbled == IF logGarbage THEN garbled \cup {Arrival} ELSE garbled

\* a recv that returns when msg.Unpack fails
RecvReadGarbageFatal(s) ==
    /\ rpc[s] = "read"
    /\ list[s] = "open"
    /\ CanDeliver
    /\ budget' = Delivered
    /\ garbled' = Garbled
    /\ rpc' = [rpc EXCEPT ![s] = "done"]
    /\ UNCHANGED <<params, entries, qpc, ret, wrote, packErr, rmsg>>
    /\ UNCHANGED <<clientVars, loopVars, observe, taken, forwarded>>
    /\ UNCHANGED <<wfail, chCloses, sockCloses, extVars>>

\* lines 217-225: a datagram is read and msg.Unpack refuses it
RecvReadGarbage(s) ==
    /\ rpc[s] = "read"
    /\ list[s] = "open"
    /\ CanDeliver
    /\ budget' = Delivered
    /\ garbled' = Garbled
    /\ rpc' = [rpc EXCEPT ![s] = "check"]
    /\ UNCHANGED <<params, entries, qpc, ret, wrote, packErr, rmsg>>
    /\ UNCHANGED <<clientVars, loopVars, observe, taken, forwarded>>
    /\ UNCHANGED <<wfail, chCloses, sockCloses, extVars>>

\* lines 217-222: a datagram is read and decoded
RecvReadMsg(s) ==
    /\ rpc[s] = "read"
    /\ list[s] = "open"
    /\ CanDeliver
    /\ \E m \in Messages :
         /\ rmsg' = [rmsg EXCEPT ![s] = m]
         /\ rpc' = [rpc EXCEPT ![s] = "push"]
    /\ budget' = Delivered
    /\ UNCHANGED <<params, entries, qpc, ret, wrote, packErr>>
    /\ UNCHANGED <<clientVars, loopVars, observe, taken, forwarded>>
    /\ UNCHANGED <<auxVars, extVars>>

\* a recv that hands the first record of its message to params.Entries itself
RecvPushToSink(s) ==
    /\ rpc[s] = "push"
    /\ Len(rmsg[s]) > 0
    /\ forwarded' = Log(forwarded, Head(rmsg[s]))
    /\ rpc' = [rpc EXCEPT ![s] = "check"]
    /\ rmsg' = [rmsg EXCEPT ![s] = NoMsg]
    /\ UNCHANGED <<params, entries, qpc, ret, wrote, packErr>>
    /\ UNCHANGED <<clientVars, loopVars, observe, budget, taken>>
    /\ UNCHANGED <<auxVars, extVars>>

\* select, case msgCh <- msg (227)
RecvPush(s) ==
    /\ rpc[s] = "push"
    /\ Len(msgCh) < MsgChCap
    /\ msgCh' = Append(msgCh, rmsg[s])
    /\ rpc' = [rpc EXCEPT ![s] = "check"]
    /\ rmsg' = [rmsg EXCEPT ![s] = NoMsg]
    /\ UNCHANGED <<params, entries, qpc, ret, wrote, packErr, serviceAddr, finish, resp, idx>>
    /\ UNCHANGED <<clientVars, histVars>>
    /\ UNCHANGED <<auxVars, extVars>>

\* the select of line 226 without its closedCh case: the receiver stays in
\* the send
RecvShutdownMissing(s) ==
    /\ rpc[s] = "push"
    /\ closedCh = "closed"
    /\ UNCHANGED vars

\* select, case <-c.closedCh (228-229)
RecvShutdown(s) ==
    /\ rpc[s] = "push"
    /\ closedCh = "closed"
    /\ rpc' = [rpc EXCEPT ![s] = "done"]
    /\ rmsg' = [rmsg EXCEPT ![s] = NoMsg]
    /\ UNCHANGED <<params, entries, qpc, ret, wrote, packErr>>
    /\ UNCHANGED <<clientVars, loopVars, histVars>>
    /\ UNCHANGED <<auxVars, extVars>>

\* line 216: the loop test finds the flag set and recv returns
RecvExit(s) == RecvCheck(s) /\ rpc'[s] = "done"

recv(s) ==
    \/ RecvEntry(s)
    \/ RecvCheck(s)
    \/ RecvReadErr(s)
    \/ RecvReadGarbage(s)
    \/ RecvReadMsg(s)
    \/ RecvPush(s)
    \/ RecvShutdown(s)

\* ------------------------------------------------------ specification
\* the steps the goroutine running Query takes on its own; the send that needs
\* the caller (RangeSendDirect) is listed in Next
Query ==
    \/ NewClient
    \/ SetInterface
    \/ Defaults
    \/ QueryStart
    \/ SendQuery
    \/ SelectMsg
    \/ SelectFinish
    \/ RangeEnd
    \/ RangeSkip
    \/ RangeSendBuffered
    \/ CloseLock
    \/ CloseFlag
    \/ CloseCh
    \/ CloseSocks
    \/ CloseUnlock

Next ==
    \/ Query
    \/ RangeSendDirect
    \/ CallerRecv
    \/ Tick
    \/ \E s \in Stacks : recv(s)

Spec == Init /\ [][Next]_vars

\* The same program against a network that never runs out of datagrams
\* (no history is kept, so the state space stays finite).
\* Names, the length of the timeout and the pinned interface play no part in
\* the scheduling of the listening phase.
LiveParamSet ==
    { p \in ParamSet : /\ p.Service = <<"s", " ", ".">>
                        /\ p.Domain = <<>>
                        /\ p.Timeout = 0
                        /\ p.Interface = "nil" }

InitLive ==
    /\ InitCommon
    /\ params \in LiveParamSet
    /\ observe = FALSE
    /\ budget = 0
    /\ logWrites = FALSE
    /\ logGarbage = FALSE

\* Scheduling: every goroutine that can take a step eventually takes one, the
\* runtime timer runs, and a select with several ready cases picks each of
\* them with equal probability, so the ready timeout case is not passed over
\* forever (strong fairness on SelectFinish).
Scheduling ==
    /\ WF_vars(Query)
    /\ SF_vars(SelectFinish)
    /\ WF_vars(Tick)
    /\ \A s \in Stacks : WF_vars(recv(s))

\* The caller keeps draining params.Entries.
CallerDrains ==
    /\ WF_vars(CallerRecv)
    /\ WF_vars(RangeSendDirect)

\* The program with the outcome of its writes logged.
WriteParamSet ==
    { p \in ParamSet : /\ p.Service = <<"s", " ", ".">>
                        /\ p.Domain = <<>>
                        /\ p.Timeout = 0 }

InitWrite ==
    /\ InitCommon
    /\ params \in WriteParamSet
    /\ observe = TRUE
    /\ budget = MaxPackets
    /\ logWrites = TRUE
    /\ logGarbage = FALSE

WriteSpec == InitWrite /\ [][Next]_vars

\* The registry on its own: nothing in client.go calls ensureName or alias,
\* so its owner is a single task making any sequence of operations.
InitRegistry ==
    /\ InitCommon
    /\ params \in LiveParamSet
    /\ params.QueryType = "ANY"
    /\ params.EntriesCap = 0
    /\ observe = FALSE
    /\ budget = 0
    /\ logWrites = FALSE
    /\ logGarbage = FALSE

NextRegistry ==
    \/ \E name \in Names : EnsureNameCall(name)
    \/ \E src, dst \in Names : AliasCall(src, dst)
    \/ \E name \in Names, mu \in Mutations : MutateCall(name, mu)

RegistrySpec == InitRegistry /\ [][NextRegistry]_vars

\* the bounded network with the refused datagrams logged
InitGarbage ==
    /\ InitCommon
    /\ params \in WriteParamSet
    /\ observe = TRUE
    /\ budget = MaxPackets
    /\ logWrites = FALSE
    /\ logGarbage = TRUE

GarbageSpec == InitGarbage /\ [][Next]_vars

\* Close called concurrently: the state in which the timeout case has just
\* returned and the deferred Close is about to run, the Receivers started,
\* with further goroutines calling Close on the same client.
CloseStart ==
    /\ params \in [Service : {<<"s", " ", ".">>}, Domain : {Local},
                    Timeout : {DefaultTimeout}, Interface : {"nil"},
                    QueryType : {"ANY"}, EntriesCap : {0}]
    /\ entries = <<>>
    /\ qpc = "Close"
    /\ ret = "nil"
    /\ list \in {l \in [Stacks -> {"open", "nil"}] : \E s \in Stacks : l[s] = "open"}
    /\ closed = FALSE
    /\ closedCh = "open"
    /\ closeLock = "free"
    /\ ifaceSet = [s \in Stacks |-> "untouched"]
    /\ serviceAddr = ServiceAddrOf(params.Service, params.Domain)
    /\ msgCh = <<>>
    /\ finish = 0
    /\ resp = NoMsg
    /\ idx = 0
    /\ rpc = [s \in Stacks |-> "entry"]
    /\ rmsg = [s \in Stacks |-> NoMsg]
    /\ wrote = [s \in Stacks |-> IF list[s] = "nil" THEN 0 ELSE 1]
    /\ packErr = FALSE
    /\ taken = <<>>
    /\ forwarded = <<>>
    /\ observe = FALSE
    /\ budget = 0
    /\ logWrites = FALSE
    /\ logGarbage = FALSE
    /\ wfail = {}
    /\ garbled = {}
    /\ chCloses = 0
    /\ sockCloses = [s \in Stacks |-> 0]
    /\ RegistryInit

InitClose ==
    /\ CloseStart
    /\ cpc = [c \in Closers |-> "idle"]
    /\ ccalls = [c \in Closers |-> 0]

NextClose ==
    \/ CloseLock
    \/ CloseFlag
    \/ CloseCh
    \/ CloseSocks
    \/ CloseUnlock
    \/ \E c \in Closers : CallClose(c)
    \/ \E s \in Stacks : recv(s)

CloseSpec == InitClose /\ [][NextClose]_vars

\* A receiver whose Read fails because Close closed the socket made that Read
\* after Close's write of the flag (line 134 precedes lines 137-142, and the
\* socket's own lock orders the two), so a receiver looping on a closed socket
\* does not read the stale flag forever.
FlagBecomesVisible == \A s \in Stacks : SF_vars(RecvExit(s))

\* the receivers do not look at the query type: one type is enough
InitRecv ==
    /\ InitLive
    /\ params.QueryType = "ANY"

FairSpecRecv == InitRecv /\ [][Next]_vars /\ Scheduling /\ FlagBecomesVisible

FairSpec == InitLive /\ [][Next]_vars /\ Scheduling /\ CallerDrains

\* Fair scheduling of the program, with a caller that may stop reading.
FairSpecNoDrain == InitLive /\ [][Next]_vars /\ Scheduling

TypeOK ==
    /\ params \in ParamSet \cup
         [Service : Services, Domain : Domains \cup {Local},
          Timeout : {DefaultTimeout}, Interface : Interfaces,
          QueryType : QueryTypes, EntriesCap : EntriesCaps]
    /\ Len(entries) <= params.EntriesCap
    /\ ret \in {"none", "nil", "ErrBind", "ErrIface"}
    /\ list \in [Stacks -> {"unset", "nil", "open", "closed"}]
    /\ closed \in BOOLEAN
    /\ closedCh \in {"unset", "open", "closed"}
    /\ closeLock \in {"free", "Query"} \cup Closers
    /\ cpc \in [Closers -> {"idle", "Close_flag", "Close_ch", "Close_socks", "Close_unlock"}]
    /\ ccalls \in [Closers -> 0..MaxCloseCalls]
    /\ ifaceSet \in [Stacks -> {"untouched", "set", "rejected"}]
    /\ Len(msgCh) <= MsgChCap
    /\ finish \in -1..DefaultTimeout
    /\ idx \in 0..(Len(resp) + 1)
    /\ rpc \in [Stacks -> {"idle", "entry", "check", "read", "push", "done"}]
    /\ wrote \in [Stacks -> 0..1]
    /\ packErr \in BOOLEAN
    /\ logWrites \in BOOLEAN
    /\ wfail \subseteq Stacks
    /\ logGarbage \in BOOLEAN
    /\ DOMAIN inprogress \subseteq Names
    /\ \A n \in DOMAIN inprogress : inprogress[n] \in 1..Len(heap)
    /\ Len(heap) <= MaxOps
    /\ \A p \in 1..Len(heap) : heap[p].Name \in Names
    /\ rop.op \in {"none", "ensureName", "alias", "mutate"}
    /\ nops \in 0..MaxOps
    /\ aliasedEver \subseteq Names \X Names
    /\ garbled \subseteq 1..MaxPackets
    /\ chCloses \in 0..1
    /\ sockCloses \in [Stacks -> 0..1]
    /\ observe \in BOOLEAN
    /\ budget \in 0..MaxPackets
    /\ Len(taken) <= MaxPackets

Listening == qpc \in {"select", "range"}
Returned == qpc = "done"
Acquired == closedCh # "unset"
Closing == qpc \in {"Close", "Close_flag", "Close_ch", "Close_socks", "Close_unlock"}

\* ------------------------------------------------------------ claims
\* The filter of the specification: the exact question name, and the
\* requested type unless the wildcard was requested.
Wanted(r) ==
    /\ r.Name = serviceAddr
    /\ (params.QueryType = "ANY" \/ r.Rrtype = params.QueryType)

RECURSIVE Flatten(_)
Flatten(msgs) == IF msgs = <<>> THEN <<>> ELSE Head(msgs) \o Flatten(Tail(msgs))

\* C1: every record pushed to params.Entries carries the question name built
\* for the query and the requested type (any type under the wildcard); a
\* record with another name is never forwarded.
C1_OnlyMatchingForwarded ==
    \A i \in 1..Len(forwarded) :
        /\ forwarded[i].Name = serviceAddr
        /\ serviceAddr = ServiceAddrOf(params.Service, params.Domain)
        /\ (params.QueryType = "ANY" \/ forwarded[i].Rrtype = params.QueryType)

\* a message with an answer for another name was ranged over to its end, and
\* only its answer for the question name was forwarded
C1_Witness ==
    /\ Len(taken) = 1
    /\ qpc = "select"
    /\ \E i \in 1..Len(taken[1]) : taken[1][i].Name # serviceAddr
    /\ Len(forwarded) = 1

\* The answers the loop has ranged over so far, in order: the messages taken
\* before the current one, and the part of the current one behind idx.
Ranged ==
    IF qpc = "range"
    THEN Flatten(SubSeq(taken, 1, Len(taken) - 1))
         \o SubSeq(taken[Len(taken)], 1, idx - 1)
    ELSE Flatten(taken)

\* C2: the records pushed to the sink are, in order, exactly the matching
\* answers of the messages taken from msgCh: each occurrence once, duplicates
\* included, nothing reordered.
C2_ForwardedInOrder == forwarded = SelectSeq(Ranged, Wanted)

\* the same message was taken twice and its matching answer forwarded twice
C2_Witness ==
    /\ Len(taken) = 2
    /\ taken[1] = taken[2]
    /\ qpc = "select"
    /\ Len(forwarded) >= 2
    /\ forwarded[1] = forwarded[Len(forwarded)]

\* C3: Query returns nil only after the timer has fired; a return before the
\* timeout carries an error.
C3_NilOnlyAfterTimeout ==
    (Returned /\ Acquired /\ finish # 0) => ret \notin {"nil", "none"}

\* C4: with fair scheduling and a caller that drains the sink, a Query whose
\* setup succeeded returns nil after the timer fired, however many messages
\* the Receivers keep delivering.
C4_ReturnsAfterTimeout ==
    (qpc = "select") ~> (Returned /\ ret = "nil" /\ finish = 0)

\* Query has returned on the timeout while msgCh was full and a Receiver was
\* holding yet another message
C4_Witness ==
    /\ Returned
    /\ ret = "nil"
    /\ finish = 0
    /\ Len(msgCh) = MsgChCap
    /\ \E s \in Stacks : rmsg[s] # NoMsg

\* C5: a send to the sink never keeps Query from returning: once the timer
\* has fired Query returns, whether or not the caller reads params.Entries.
C5_SendNeverBlocks == (Listening /\ finish = 0) ~> Returned

\* C6: when both binds fail Query returns an error, no Receiver is started,
\* no question is written and the sink receives nothing.
C6_BothBindsFail ==
    (\A s \in Stacks : list[s] = "nil") =>
        /\ Returned
        /\ ret = "ErrBind"
        /\ \A s \in Stacks : rpc[s] = "idle" /\ wrote[s] = 0
        /\ forwarded = <<>>
        /\ entries = <<>>

\* both binds have failed and Query has returned
C6_Witness == Returned /\ \A s \in Stacks : list[s] = "nil"

Degraded == \E s \in Stacks : list[s] = "nil" /\ list[10 - s] \in {"open", "closed"}

\* C7: when exactly one bind fails (and the question packs and the live stack
\* accepts the interface) the query runs on the surviving stack: the question
\* is written once on the live socket, a Receiver ran on it, and Query
\* returns nil after the timeout.
C7_DegradedQueryCompletes ==
    (/\ Degraded
     /\ Returned
     /\ ~packErr
     /\ \A s \in Stacks : ifaceSet[s] = "rejected" => list[s] = "nil") =>
        /\ ret = "nil"
        /\ finish = 0
        /\ \A s \in Stacks :
             IF list[s] = "nil"
             THEN wrote[s] = 0
             ELSE wrote[s] = 1 /\ rpc[s] \notin {"idle", "entry"}

\* C8: when packing the question fails Query returns an error, and no
\* Receiver has been started for the query.
C8_PackFailureIsError ==
    packErr =>
        /\ \A s \in Stacks : rpc[s] = "idle"
        /\ ret # "nil"

\* C9: when pinning the interface is rejected by either stack Query returns
\* that error, the Transport is closed by then, and no Receiver was started
\* and no question written.
C9_InterfaceRejected ==
    (\E s \in Stacks : ifaceSet[s] = "rejected") =>
        /\ ret = "ErrIface"
        /\ Closing \/ Returned
        /\ \A s \in Stacks : rpc[s] = "idle" /\ wrote[s] = 0
        /\ Returned => (closed /\ closedCh = "closed"
                        /\ \A s \in Stacks : list[s] # "open")

\* the IPv4 stack took the interface, the IPv6 stack rejected it, and Query
\* has returned
C9_Witness ==
    /\ Returned
    /\ ifaceSet[4] = "set"
    /\ ifaceSet[6] = "rejected"

\* C10: when Query returns after a Transport was acquired the Transport is
\* closed: the flag is set, closedCh is closed and no socket is open.
C10_ClosedOnReturn ==
    (Returned /\ Acquired) =>
        /\ closed
        /\ closedCh = "closed"
        /\ \A s \in Stacks : list[s] # "open"
        /\ closeLock = "free"

\* Query has returned on the timeout with both sockets bound and now closed
C10_Witness ==
    /\ Returned
    /\ ret = "nil"
    /\ finish = 0
    /\ \A s \in Stacks : list[s] = "closed"

\* C14: the question is written exactly once on each live socket (never on a
\* nil one, never again later); a failed write does not keep the other stack
\* from being written, does not make Query return an error and does not end
\* the listening before the timeout.
C14_OneWritePerLiveSocket ==
    /\ \A s \in Stacks : wrote[s] <= 1
    /\ (Listening \/ (~packErr /\ finish >= 0)) =>
          \A s \in Stacks : wrote[s] = IF list[s] = "nil" THEN 0 ELSE 1
    /\ wfail # {} =>
          /\ ret \in {"none", "nil"}
          /\ \A s \in Stacks : list[s] # "nil" => wrote[s] = 1
          /\ ret = "nil" => finish = 0

\* the write on the IPv4 socket failed, the IPv6 socket was written all the
\* same, a record was forwarded later and Query returned nil on the timeout
C14_Witness ==
    /\ wfail = {4}
    /\ wrote = [s \in Stacks |-> 1]
    /\ forwarded # <<>>
    /\ Returned
    /\ ret = "nil"
    /\ finish = 0

\* the callers of Close that are between its lock and its unlock, having
\* found the flag unset
InsideClose ==
    {c \in Closers : cpc[c] \in {"Close_ch", "Close_socks"}}
    \cup (IF qpc \in {"Close_ch", "Close_socks"} THEN {"Query"} ELSE {})

AllCloseCallsReturned ==
    /\ Returned
    /\ \A c \in Closers : ccalls[c] = MaxCloseCalls

\* C11: for any interleaving of Close calls on one client, closedCh is closed
\* exactly once and each socket at most once; a call that finds the client
\* closed changes nothing (it is never inside the closing part).
C11_CloseIdempotent ==
    /\ chCloses <= 1
    /\ \A s \in Stacks : sockCloses[s] <= 1
    /\ Cardinality(InsideClose) <= 1
    /\ (closed /\ InsideClose = {} /\ closeLock = "free") =>
          /\ chCloses = 1
          /\ closedCh = "closed"
          /\ \A s \in Stacks : sockCloses[s] = IF list[s] = "nil" THEN 0 ELSE 1
    /\ AllCloseCallsReturned => closed

\* Query's deferred Close and every Close call of the further callers have
\* returned
C11_Witness ==
    /\ AllCloseCallsReturned
    /\ chCloses = 1
    /\ \A s \in Stacks : sockCloses[s] = 1

ReceiversGone == \A s \in Stacks : rpc[s] \in {"idle", "done"}

\* C12: once the client is closed, every receiver eventually has returned,
\* whether it was in Read or in the send on a full msgCh that nobody reads.
C12_ReceiversTerminate == closed ~> ReceiversGone

\* both sockets were live, Query has returned leaving msgCh full, and both
\* receivers have returned
C12_Witness ==
    /\ Returned
    /\ closed
    /\ \A s \in Stacks : list[s] = "closed" /\ rpc[s] = "done"
    /\ Len(msgCh) = MsgChCap

\* the datagrams read so far that msg.Unpack accepted
Decoded == (MaxPackets - budget) - Cardinality(garbled)

\* the decoded messages on their way to, or taken by, the loop of client.query
InTransit ==
    Len(taken) + Len(msgCh) + Cardinality({s \in Stacks : rpc[s] = "push"})

\* C13: a receiver of a live socket is gone only after the client was closed
\* (never because Read or Unpack failed); while the client is open every
\* datagram Unpack accepted, before or after a refused one, is in msgCh, held
\* by its receiver or taken by the loop; Query returns no error once the
\* receivers run.
C13_FailuresAbsorbed ==
    /\ \A s \in Stacks : (rpc[s] = "done" /\ list[s] # "nil") => closed
    /\ ~closed => Decoded = InTransit
    /\ (garbled # {} \/ \E s \in Stacks : rpc[s] # "idle") => ret \in {"none", "nil"}

\* the first datagram was refused by Unpack, the second was decoded and a
\* record of it was forwarded
C13_Witness ==
    /\ garbled = {1}
    /\ budget = 0
    /\ Len(taken) = 1
    /\ forwarded # <<>>
    /\ \A s \in Stacks : list[s] = "open" /\ rpc[s] \in {"check", "read"}

\* a registry operation has just been made
RegistryStep(op) == nops' # nops /\ rop'.op = op

\* what a caller sees of the entry of name: the object and its fields
Resolve(m, h, name) ==
    LET r == ensureName(m, h, name)
    IN  [ret |-> r.ret, entry |-> r.heap[r.ret], created |-> r.heap # h]

\* a mutation made through name x is read back through name y
SeenThrough(m, h, x, y) ==
    \A mu \in Mutations :
        LET rx == ensureName(m, h, x)
            h2 == SetField(rx.heap, rx.ret, mu)
            ry == ensureName(rx.inprogress, h2, y)
        IN  ry.heap[ry.ret][mu[1]] = mu[2]

\* C15: right after alias(A, B) both names resolve to one object, without any
\* further creation; a mutation through either name is read through the
\* other; the object is A's earlier one with its fields when A was in the map,
\* and a new entry named A otherwise.
C15_AliasSharesEntry ==
    [][RegistryStep("alias") =>
         LET A == rop'.src
             B == rop'.dst
             ra == Resolve(inprogress', heap', A)
             rb == Resolve(inprogress', heap', B)
         IN  /\ ra.ret = rb.ret
             /\ ~ra.created /\ ~rb.created
             /\ SeenThrough(inprogress', heap', A, B)
             /\ SeenThrough(inprogress', heap', B, A)
             /\ IF A \in DOMAIN inprogress
                THEN ra.ret = inprogress[A] /\ ra.entry = heap[inprogress[A]]
                ELSE ra.entry = NewEntry(A)
    ]_vars

\* alias(src, dst) has just been called on a src whose entry already had an
\* address, and dst shows it
C15_Witness ==
    /\ rop.op = "alias"
    /\ rop.src # rop.dst
    /\ inprogress[rop.src] = inprogress[rop.dst]
    /\ heap[inprogress[rop.dst]].Addr = "ip"
    /\ heap[inprogress[rop.dst]].Name = rop.src

\* C18: two names once given to alias resolve to the same object ever after.
C18_AliasedStaySame ==
    \A pair \in aliasedEver : inprogress[pair[1]] = inprogress[pair[2]]

\* C19: ensureName of a name in the map returns its entry and changes neither
\* the map nor any entry; of an absent name it adds that one key, bound to a
\* new object with Name set and every other field zero, and leaves the other
\* keys and objects as they were; a second call returns the same object.
C19_EnsureNameFootprint ==
    [][RegistryStep("ensureName") =>
         LET name == rop'.src
             p == rop'.ret
         IN  /\ IF name \in DOMAIN inprogress
                THEN /\ p = inprogress[name]
                     /\ inprogress' = inprogress
                     /\ heap' = heap
                ELSE /\ DOMAIN inprogress' = (DOMAIN inprogress) \cup {name}
                     /\ \A n \in DOMAIN inprogress : inprogress'[n] = inprogress[n]
                     /\ p = inprogress'[name]
                     /\ p \notin 1..Len(heap)
                     /\ Len(heap') = Len(heap) + 1
                     /\ \A q \in 1..Len(heap) : heap'[q] = heap[q]
                     /\ heap'[p] = NewEntry(name)
             /\ ensureName(inprogress', heap', name) =
                   [inprogress |-> inprogress', heap |-> heap', ret |-> p]
    ]_vars

\* ensureName has just returned an entry that already existed and had been
\* given an address, with another entry in the registry
C19_Witness ==
    /\ rop.op = "ensureName"
    /\ Len(heap) = 2
    /\ heap[rop.ret].Addr = "ip"
    /\ nops = MaxOps

\* a record goes to params.Entries in this step
SinkWrite == forwarded' # forwarded \/ Len(entries') > Len(entries)

\* C16: a record is sent on params.Entries only by the range loop of
\* client.query, so never once Query has returned, whatever the receivers
\* still hold.
C16_NoSendAfterReturn ==
    [][SinkWrite => (qpc = "range" /\ ~Returned /\ ret = "none")]_vars

\* Query has returned after forwarding a record and a receiver is still in
\* its send, holding a message with records
C16_Witness ==
    /\ Returned
    /\ forwarded # <<>>
    /\ \E s \in Stacks : rpc[s] = "push" /\ Len(rmsg[s]) > 0

\* C17: with one socket nil and an interface requested, setInterface makes
\* no call on the nil socket, and Query does not fail on the interface when
\* the live stack accepted it.
C17_InterfaceOnLiveOnly ==
    (/\ Degraded
     /\ params.Interface # "nil"
     /\ qpc \notin {"newClient", "setInterface"}) =>
        /\ \A s \in Stacks : list[s] = "nil" => ifaceSet[s] = "untouched"
        /\ (\A s \in Stacks : list[s] # "nil" => ifaceSet[s] # "rejected") =>
              ret # "ErrIface"

\* a goroutine is at its access of c.closed: a receiver at the loop test of
\* line 216 (read), Close at line 134 (write)
FlagReaders == {s \in Stacks : rpc[s] = "check"}
FlagWriter == qpc = "Close_flag" /\ ~AlreadyClosed

\* C20: no receiver is at its read of c.closed while Close, holding
\* closeLock, is at its write of it.
C20_FlagAccessLocked == FlagWriter => FlagReaders = {}

====
